---------------------------- MODULE Spec2Model ----------------------------
(***************************************************************************)
(* The Braille transcoding engine of elevate-foundry/braille:              *)
(*   src/generate_hybrid.py  encode_g1, decode_g1, encode_g2,              *)
(*                           compress_to_n_cells and their tables,         *)
(*   src/generate_data.py    to_braille_g1, to_braille_g2 and their tables,*)
(*   src/validate.py         encode_g1, decode_g1 and their table.         *)
(*                                                                         *)
(* A Python str is a sequence of Unicode code points: 'a' is 97, the       *)
(* Braille cell U+2801 is 10241, the blank cell U+2800 is 10240.  A dict   *)
(* is the sequence of its items <<key, value>> in insertion order, which   *)
(* is the order Python iterates it in.                                     *)
(***************************************************************************)
EXTENDS Integers, Sequences, FiniteSets, TLC

VARIABLES
    pc,         \* "idle", "done", or the position inside compress_to_n_cells
    op,         \* the function called
    text,       \* its string argument
    n,          \* compress_to_n_cells: the argument n
    chained,    \* decode: TRUE when the argument is the output of the encode of `source`
    source,     \* decode: the text whose encoding is being decoded
    ret,        \* the returned string (compress_to_n_cells: the cells)
    reasoning,  \* compress_to_n_cells: the rationale string returned beside the cells
    words,      \* compress_to_n_cells: local `words`
    letters,    \* compress_to_n_cells: local `letters`
    longest,    \* compress_to_n_cells: local `longest`
    idx,        \* compress_to_n_cells: position of the for loop in longest[1:]
    tables,     \* generate_hybrid.py: the module-level dictionaries, as the calls find them
    callers     \* concurrent callers: for each, the call it has in progress and its locals

vars == <<pc, op, text, n, chained, source, ret, reasoning, words, letters, longest, idx, tables, callers>>

-----------------------------------------------------------------------------
(* Bounds of the input space *)

MaxLenG1 == 3
MaxLenG2 == 4
MaxLenDec == 2
MaxLenC == 4
MaxN == 3
NumCallers == 2

-----------------------------------------------------------------------------
(* The mapping tables *)

(* src/generate_hybrid.py G1_MAP, lines 36-46: the items in insertion order, each <<key, value>>, strings as code-point sequences *)
G1_MAP ==
  <<
    <<<<97>>, <<10241>>>>, <<<<98>>, <<10243>>>>, <<<<99>>, <<10249>>>>,   \* a b c
    <<<<100>>, <<10265>>>>, <<<<101>>, <<10257>>>>, <<<<102>>, <<10251>>>>,   \* d e f
    <<<<103>>, <<10267>>>>, <<<<104>>, <<10259>>>>, <<<<105>>, <<10250>>>>,   \* g h i
    <<<<106>>, <<10266>>>>, <<<<107>>, <<10245>>>>, <<<<108>>, <<10247>>>>,   \* j k l
    <<<<109>>, <<10253>>>>, <<<<110>>, <<10269>>>>, <<<<111>>, <<10261>>>>,   \* m n o
    <<<<112>>, <<10255>>>>, <<<<113>>, <<10271>>>>, <<<<114>>, <<10263>>>>,   \* p q r
    <<<<115>>, <<10254>>>>, <<<<116>>, <<10270>>>>, <<<<117>>, <<10277>>>>,   \* s t u
    <<<<118>>, <<10279>>>>, <<<<119>>, <<10298>>>>, <<<<120>>, <<10285>>>>,   \* v w x
    <<<<121>>, <<10301>>>>, <<<<122>>, <<10293>>>>, <<<<32>>, <<10240>>>>,   \* y z SP
    <<<<46>>, <<10290>>>>, <<<<44>>, <<10242>>>>, <<<<33>>, <<10262>>>>,   \* . , !
    <<<<63>>, <<10278>>>>, <<<<45>>, <<10276>>>>, <<<<39>>, <<10244>>>>,   \* ? - '
    <<<<58>>, <<10258>>>>, <<<<59>>, <<10246>>>>, <<<<48>>, <<10292>>>>,   \* : ; 0
    <<<<49>>, <<10242>>>>, <<<<50>>, <<10246>>>>, <<<<51>>, <<10258>>>>,   \* 1 2 3
    <<<<52>>, <<10290>>>>, <<<<53>>, <<10274>>>>, <<<<54>>, <<10262>>>>,   \* 4 5 6
    <<<<55>>, <<10294>>>>, <<<<56>>, <<10278>>>>, <<<<57>>, <<10260>>>>   \* 7 8 9
  >>

(* src/generate_hybrid.py G2_STRONG, lines 49-53: the items in insertion order, each <<key, value>>, strings as code-point sequences *)
G2_STRONG ==
  <<
    <<<<116, 104, 101>>, <<10286>>>>,   \* the
    <<<<97, 110, 100>>, <<10287>>>>,   \* and
    <<<<102, 111, 114>>, <<10303>>>>,   \* for
    <<<<111, 102>>, <<10295>>>>,   \* of
    <<<<119, 105, 116, 104>>, <<10302>>>>,   \* with
    <<<<99, 104, 105, 108, 100>>, <<10273>>>>,   \* child
    <<<<115, 104, 97, 108, 108>>, <<10281>>>>,   \* shall
    <<<<116, 104, 105, 115>>, <<10297>>>>,   \* this
    <<<<119, 104, 105, 99, 104>>, <<10289>>>>,   \* which
    <<<<111, 117, 116>>, <<10291>>>>,   \* out
    <<<<115, 116, 105, 108, 108>>, <<10252>>>>   \* still
  >>

(* src/generate_hybrid.py G2_WORDSIGNS, lines 56-62: the items in insertion order, each <<key, value>>, strings as code-point sequences *)
G2_WORDSIGNS ==
  <<
    <<<<98, 117, 116>>, <<10243>>>>,   \* but
    <<<<99, 97, 110>>, <<10249>>>>,   \* can
    <<<<100, 111>>, <<10265>>>>,   \* do
    <<<<101, 118, 101, 114, 121>>, <<10257>>>>,   \* every
    <<<<102, 114, 111, 109>>, <<10251>>>>,   \* from
    <<<<103, 111>>, <<10267>>>>,   \* go
    <<<<104, 97, 118, 101>>, <<10259>>>>,   \* have
    <<<<106, 117, 115, 116>>, <<10266>>>>,   \* just
    <<<<107, 110, 111, 119, 108, 101, 100, 103, 101>>, <<10245>>>>,   \* knowledge
    <<<<108, 105, 107, 101>>, <<10247>>>>,   \* like
    <<<<109, 111, 114, 101>>, <<10253>>>>,   \* more
    <<<<110, 111, 116>>, <<10269>>>>,   \* not
    <<<<112, 101, 111, 112, 108, 101>>, <<10255>>>>,   \* people
    <<<<113, 117, 105, 116, 101>>, <<10271>>>>,   \* quite
    <<<<114, 97, 116, 104, 101, 114>>, <<10263>>>>,   \* rather
    <<<<115, 111>>, <<10254>>>>,   \* so
    <<<<116, 104, 97, 116>>, <<10270>>>>,   \* that
    <<<<117, 115>>, <<10277>>>>,   \* us
    <<<<118, 101, 114, 121>>, <<10279>>>>,   \* very
    <<<<119, 105, 108, 108>>, <<10298>>>>,   \* will
    <<<<105, 116>>, <<10285>>>>,   \* it
    <<<<121, 111, 117>>, <<10301>>>>,   \* you
    <<<<97, 115>>, <<10293>>>>   \* as
  >>

(* src/generate_hybrid.py G2_GROUPSIGNS, lines 65-69: the items in insertion order, each <<key, value>>, strings as code-point sequences *)
G2_GROUPSIGNS ==
  <<
    <<<<105, 110, 103>>, <<10284>>>>,   \* ing
    <<<<98, 108, 101>>, <<10300>>>>,   \* ble
    <<<<99, 104>>, <<10273>>>>,   \* ch
    <<<<103, 104>>, <<10275>>>>,   \* gh
    <<<<115, 104>>, <<10281>>>>,   \* sh
    <<<<116, 104>>, <<10297>>>>,   \* th
    <<<<119, 104>>, <<10289>>>>,   \* wh
    <<<<101, 100>>, <<10283>>>>,   \* ed
    <<<<101, 114>>, <<10299>>>>,   \* er
    <<<<111, 117>>, <<10291>>>>,   \* ou
    <<<<111, 119>>, <<10282>>>>,   \* ow
    <<<<115, 116>>, <<10252>>>>,   \* st
    <<<<97, 114>>, <<10268>>>>,   \* ar
    <<<<101, 110>>, <<10274>>>>,   \* en
    <<<<105, 110>>, <<10260>>>>   \* in
  >>

(* src/generate_hybrid.py G2_LOWER, lines 72-75: the items in insertion order, each <<key, value>>, strings as code-point sequences *)
G2_LOWER ==
  <<
    <<<<98, 101>>, <<10246>>>>,   \* be
    <<<<101, 110, 111, 117, 103, 104>>, <<10274>>>>,   \* enough
    <<<<119, 101, 114, 101>>, <<10294>>>>,   \* were
    <<<<104, 105, 115>>, <<10278>>>>,   \* his
    <<<<119, 97, 115>>, <<10292>>>>,   \* was
    <<<<116, 111>>, <<10262>>>>,   \* to
    <<<<105, 110, 116, 111>>, <<10260, 10262>>>>,   \* into
    <<<<98, 121>>, <<10243, 10301>>>>   \* by
  >>

(* src/generate_data.py G1_MAP, lines 5-12: the items in insertion order, each <<key, value>>, strings as code-point sequences *)
gd_G1_MAP ==
  <<
    <<<<97>>, <<10241>>>>, <<<<98>>, <<10243>>>>, <<<<99>>, <<10249>>>>,   \* a b c
    <<<<100>>, <<10265>>>>, <<<<101>>, <<10257>>>>, <<<<102>>, <<10251>>>>,   \* d e f
    <<<<103>>, <<10267>>>>, <<<<104>>, <<10259>>>>, <<<<105>>, <<10250>>>>,   \* g h i
    <<<<106>>, <<10266>>>>, <<<<107>>, <<10245>>>>, <<<<108>>, <<10247>>>>,   \* j k l
    <<<<109>>, <<10253>>>>, <<<<110>>, <<10269>>>>, <<<<111>>, <<10261>>>>,   \* m n o
    <<<<112>>, <<10255>>>>, <<<<113>>, <<10271>>>>, <<<<114>>, <<10263>>>>,   \* p q r
    <<<<115>>, <<10254>>>>, <<<<116>>, <<10270>>>>, <<<<117>>, <<10277>>>>,   \* s t u
    <<<<118>>, <<10279>>>>, <<<<119>>, <<10298>>>>, <<<<120>>, <<10285>>>>,   \* v w x
    <<<<121>>, <<10301>>>>, <<<<122>>, <<10293>>>>, <<<<32>>, <<10240>>>>,   \* y z SP
    <<<<46>>, <<10290>>>>, <<<<44>>, <<10242>>>>, <<<<33>>, <<10262>>>>,   \* . , !
    <<<<63>>, <<10278>>>>, <<<<45>>, <<10276>>>>   \* ? -
  >>

(* src/generate_data.py G2_WORDSIGNS, lines 16-22: the items in insertion order, each <<key, value>>, strings as code-point sequences *)
gd_G2_WORDSIGNS ==
  <<
    <<<<98, 117, 116>>, <<10243>>>>,   \* but
    <<<<99, 97, 110>>, <<10249>>>>,   \* can
    <<<<100, 111>>, <<10265>>>>,   \* do
    <<<<101, 118, 101, 114, 121>>, <<10257>>>>,   \* every
    <<<<102, 114, 111, 109>>, <<10251>>>>,   \* from
    <<<<103, 111>>, <<10267>>>>,   \* go
    <<<<104, 97, 118, 101>>, <<10259>>>>,   \* have
    <<<<106, 117, 115, 116>>, <<10266>>>>,   \* just
    <<<<107, 110, 111, 119, 108, 101, 100, 103, 101>>, <<10245>>>>,   \* knowledge
    <<<<108, 105, 107, 101>>, <<10247>>>>,   \* like
    <<<<109, 111, 114, 101>>, <<10253>>>>,   \* more
    <<<<110, 111, 116>>, <<10269>>>>,   \* not
    <<<<112, 101, 111, 112, 108, 101>>, <<10255>>>>,   \* people
    <<<<113, 117, 105, 116, 101>>, <<10271>>>>,   \* quite
    <<<<114, 97, 116, 104, 101, 114>>, <<10263>>>>,   \* rather
    <<<<115, 111>>, <<10254>>>>,   \* so
    <<<<116, 104, 97, 116>>, <<10270>>>>,   \* that
    <<<<117, 115>>, <<10277>>>>,   \* us
    <<<<118, 101, 114, 121>>, <<10279>>>>,   \* very
    <<<<119, 105, 108, 108>>, <<10298>>>>,   \* will
    <<<<105, 116>>, <<10285>>>>,   \* it
    <<<<121, 111, 117>>, <<10301>>>>,   \* you
    <<<<97, 115>>, <<10293>>>>   \* as
  >>

(* src/generate_data.py G2_STRONG, lines 25-29: the items in insertion order, each <<key, value>>, strings as code-point sequences *)
gd_G2_STRONG ==
  <<
    <<<<116, 104, 101>>, <<10286>>>>,   \* the
    <<<<97, 110, 100>>, <<10287>>>>,   \* and
    <<<<102, 111, 114>>, <<10303>>>>,   \* for
    <<<<111, 102>>, <<10295>>>>,   \* of
    <<<<119, 105, 116, 104>>, <<10302>>>>,   \* with
    <<<<99, 104, 105, 108, 100>>, <<10273>>>>,   \* child
    <<<<115, 104, 97, 108, 108>>, <<10281>>>>,   \* shall
    <<<<116, 104, 105, 115>>, <<10297>>>>,   \* this
    <<<<119, 104, 105, 99, 104>>, <<10289>>>>,   \* which
    <<<<111, 117, 116>>, <<10291>>>>,   \* out
    <<<<115, 116, 105, 108, 108>>, <<10252>>>>   \* still
  >>

(* src/generate_data.py G2_GROUPSIGNS, lines 32-36: the items in insertion order, each <<key, value>>, strings as code-point sequences *)
gd_G2_GROUPSIGNS ==
  <<
    <<<<99, 104>>, <<10273>>>>,   \* ch
    <<<<103, 104>>, <<10275>>>>,   \* gh
    <<<<115, 104>>, <<10281>>>>,   \* sh
    <<<<116, 104>>, <<10297>>>>,   \* th
    <<<<119, 104>>, <<10289>>>>,   \* wh
    <<<<101, 100>>, <<10283>>>>,   \* ed
    <<<<101, 114>>, <<10299>>>>,   \* er
    <<<<111, 117>>, <<10291>>>>,   \* ou
    <<<<111, 119>>, <<10282>>>>,   \* ow
    <<<<115, 116>>, <<10252>>>>,   \* st
    <<<<97, 114>>, <<10268>>>>,   \* ar
    <<<<105, 110, 103>>, <<10284>>>>,   \* ing
    <<<<98, 108, 101>>, <<10300>>>>   \* ble
  >>

(* src/generate_data.py G2_LOWER, lines 39-42: the items in insertion order, each <<key, value>>, strings as code-point sequences *)
gd_G2_LOWER ==
  <<
    <<<<98, 101>>, <<10246>>>>,   \* be
    <<<<101, 110, 111, 117, 103, 104>>, <<10274>>>>,   \* enough
    <<<<119, 101, 114, 101>>, <<10294>>>>,   \* were
    <<<<104, 105, 115>>, <<10278>>>>,   \* his
    <<<<105, 110>>, <<10260>>>>,   \* in
    <<<<119, 97, 115>>, <<10292>>>>,   \* was
    <<<<116, 111>>, <<10262>>>>,   \* to
    <<<<105, 110, 116, 111>>, <<10260, 10262>>>>,   \* into
    <<<<98, 121>>, <<10243, 10301>>>>   \* by
  >>

(* src/validate.py G1_MAP, lines 12-19: the items in insertion order, each <<key, value>>, strings as code-point sequences *)
val_G1_MAP ==
  <<
    <<<<97>>, <<10241>>>>, <<<<98>>, <<10243>>>>, <<<<99>>, <<10249>>>>,   \* a b c
    <<<<100>>, <<10265>>>>, <<<<101>>, <<10257>>>>, <<<<102>>, <<10251>>>>,   \* d e f
    <<<<103>>, <<10267>>>>, <<<<104>>, <<10259>>>>, <<<<105>>, <<10250>>>>,   \* g h i
    <<<<106>>, <<10266>>>>, <<<<107>>, <<10245>>>>, <<<<108>>, <<10247>>>>,   \* j k l
    <<<<109>>, <<10253>>>>, <<<<110>>, <<10269>>>>, <<<<111>>, <<10261>>>>,   \* m n o
    <<<<112>>, <<10255>>>>, <<<<113>>, <<10271>>>>, <<<<114>>, <<10263>>>>,   \* p q r
    <<<<115>>, <<10254>>>>, <<<<116>>, <<10270>>>>, <<<<117>>, <<10277>>>>,   \* s t u
    <<<<118>>, <<10279>>>>, <<<<119>>, <<10298>>>>, <<<<120>>, <<10285>>>>,   \* v w x
    <<<<121>>, <<10301>>>>, <<<<122>>, <<10293>>>>, <<<<32>>, <<10240>>>>   \* y z SP
  >>
(* src/generate_hybrid.py ENGLISH_PHRASES, lines 141-153: the phrases the generators draw from *)
ENGLISH_PHRASES ==
  <<
    <<104, 101, 108, 108, 111, 32, 119, 111, 114, 108, 100>>,   \* hello world
    <<116, 104, 101, 32, 113, 117, 105, 99, 107, 32, 98, 114, 111, 119, 110, 32, 102, 111, 120>>,   \* the quick brown fox
    <<107, 110, 111, 119, 108, 101, 100, 103, 101, 32, 105, 115, 32, 112, 111, 119, 101, 114>>,   \* knowledge is power
    <<101, 109, 101, 114, 103, 101, 110, 99, 121, 32, 114, 101, 115, 112, 111, 110, 115, 101, 32, 116, 101, 97, 109>>,   \* emergency response team
    <<98, 108, 111, 111, 100, 32, 112, 114, 101, 115, 115, 117, 114, 101, 32, 109, 111, 110, 105, 116, 111, 114>>,   \* blood pressure monitor
    <<112, 97, 116, 105, 101, 110, 116, 32, 118, 105, 116, 97, 108, 32, 115, 105, 103, 110, 115>>,   \* patient vital signs
    <<97, 114, 116, 105, 102, 105, 99, 105, 97, 108, 32, 105, 110, 116, 101, 108, 108, 105, 103, 101, 110, 99, 101>>,   \* artificial intelligence
    <<109, 97, 99, 104, 105, 110, 101, 32, 108, 101, 97, 114, 110, 105, 110, 103, 32, 109, 111, 100, 101, 108>>,   \* machine learning model
    <<110, 101, 117, 114, 97, 108, 32, 110, 101, 116, 119, 111, 114, 107>>,   \* neural network
    <<116, 104, 101, 32, 99, 104, 105, 108, 100, 32, 119, 105, 108, 108, 32, 108, 101, 97, 114, 110>>,   \* the child will learn
    <<112, 101, 111, 112, 108, 101, 32, 99, 97, 110, 32, 117, 110, 100, 101, 114, 115, 116, 97, 110, 100>>,   \* people can understand
    <<119, 105, 116, 104, 32, 107, 110, 111, 119, 108, 101, 100, 103, 101, 32, 97, 110, 100, 32, 119, 105, 115, 100, 111, 109>>,   \* with knowledge and wisdom
    <<109, 101, 100, 105, 99, 97, 108, 32, 97, 108, 101, 114, 116, 32, 115, 121, 115, 116, 101, 109>>,   \* medical alert system
    <<116, 97, 99, 116, 105, 108, 101, 32, 102, 101, 101, 100, 98, 97, 99, 107, 32, 100, 101, 118, 105, 99, 101>>,   \* tactile feedback device
    <<98, 114, 97, 105, 108, 108, 101, 32, 100, 105, 115, 112, 108, 97, 121, 32, 117, 110, 105, 116>>,   \* braille display unit
    <<115, 101, 109, 97, 110, 116, 105, 99, 32, 99, 111, 109, 112, 114, 101, 115, 115, 105, 111, 110>>,   \* semantic compression
    <<105, 110, 102, 111, 114, 109, 97, 116, 105, 111, 110, 32, 116, 104, 101, 111, 114, 121>>,   \* information theory
    <<99, 111, 109, 109, 117, 110, 105, 99, 97, 116, 105, 111, 110, 32, 112, 114, 111, 116, 111, 99, 111, 108>>,   \* communication protocol
    <<101, 100, 103, 101, 32, 99, 111, 109, 112, 117, 116, 105, 110, 103, 32, 100, 101, 118, 105, 99, 101>>,   \* edge computing device
    <<114, 97, 115, 112, 98, 101, 114, 114, 121, 32, 112, 105, 32, 100, 101, 112, 108, 111, 121, 109, 101, 110, 116>>,   \* raspberry pi deployment
    <<108, 111, 119, 32, 108, 97, 116, 101, 110, 99, 121, 32, 105, 110, 102, 101, 114, 101, 110, 99, 101>>,   \* low latency inference
    <<116, 104, 101, 32, 109, 111, 116, 104, 101, 114, 32, 97, 110, 100, 32, 102, 97, 116, 104, 101, 114>>,   \* the mother and father
    <<99, 104, 105, 108, 100, 114, 101, 110, 32, 115, 104, 97, 108, 108, 32, 108, 101, 97, 114, 110>>,   \* children shall learn
    <<101, 118, 101, 114, 121, 32, 112, 101, 114, 115, 111, 110, 32, 109, 97, 116, 116, 101, 114, 115>>,   \* every person matters
    <<114, 111, 98, 111, 116, 32, 97, 114, 109, 32, 99, 111, 110, 116, 114, 111, 108, 108, 101, 114>>,   \* robot arm controller
    <<104, 97, 112, 116, 105, 99, 32, 102, 101, 101, 100, 98, 97, 99, 107, 32, 103, 108, 111, 118, 101>>,   \* haptic feedback glove
    <<115, 101, 110, 115, 111, 114, 121, 32, 115, 117, 98, 115, 116, 105, 116, 117, 116, 105, 111, 110>>,   \* sensory substitution
    <<110, 97, 116, 117, 114, 97, 108, 32, 108, 97, 110, 103, 117, 97, 103, 101, 32, 112, 114, 111, 99, 101, 115, 115, 105, 110, 103>>,   \* natural language processing
    <<116, 101, 120, 116, 32, 116, 111, 32, 115, 112, 101, 101, 99, 104>>,   \* text to speech
    <<115, 112, 101, 101, 99, 104, 32, 114, 101, 99, 111, 103, 110, 105, 116, 105, 111, 110>>,   \* speech recognition
    <<97, 117, 116, 111, 110, 111, 109, 111, 117, 115, 32, 110, 97, 118, 105, 103, 97, 116, 105, 111, 110>>,   \* autonomous navigation
    <<111, 98, 115, 116, 97, 99, 108, 101, 32, 97, 118, 111, 105, 100, 97, 110, 99, 101>>,   \* obstacle avoidance
    <<112, 97, 116, 104, 32, 112, 108, 97, 110, 110, 105, 110, 103, 32, 97, 108, 103, 111, 114, 105, 116, 104, 109>>   \* path planning algorithm
  >>

(* src/generate_hybrid.py DOMAIN_CONCEPTS, lines 155-164: the phrases the generators draw from *)
DOMAIN_CONCEPTS ==
  <<
    <<101, 109, 101, 114, 103, 101, 110, 99, 121, 32, 109, 101, 100, 105, 99, 97, 108, 32, 114, 101, 115, 112, 111, 110, 115, 101>>,   \* emergency medical response
    <<98, 108, 111, 111, 100, 32, 111, 120, 121, 103, 101, 110, 32, 115, 97, 116, 117, 114, 97, 116, 105, 111, 110>>,   \* blood oxygen saturation
    <<104, 101, 97, 114, 116, 32, 114, 97, 116, 101, 32, 118, 97, 114, 105, 97, 98, 105, 108, 105, 116, 121>>,   \* heart rate variability
    <<105, 110, 116, 114, 97, 99, 114, 97, 110, 105, 97, 108, 32, 112, 114, 101, 115, 115, 117, 114, 101>>,   \* intracranial pressure
    <<114, 101, 115, 112, 105, 114, 97, 116, 111, 114, 121, 32, 100, 105, 115, 116, 114, 101, 115, 115, 32, 115, 121, 110, 100, 114, 111, 109, 101>>,   \* respiratory distress syndrome
    <<99, 97, 114, 100, 105, 97, 99, 32, 97, 114, 114, 104, 121, 116, 104, 109, 105, 97>>,   \* cardiac arrhythmia
    <<100, 105, 97, 98, 101, 116, 105, 99, 32, 107, 101, 116, 111, 97, 99, 105, 100, 111, 115, 105, 115>>,   \* diabetic ketoacidosis
    <<97, 110, 97, 112, 104, 121, 108, 97, 99, 116, 105, 99, 32, 115, 104, 111, 99, 107>>,   \* anaphylactic shock
    <<99, 101, 114, 101, 98, 114, 111, 118, 97, 115, 99, 117, 108, 97, 114, 32, 97, 99, 99, 105, 100, 101, 110, 116>>,   \* cerebrovascular accident
    <<109, 121, 111, 99, 97, 114, 100, 105, 97, 108, 32, 105, 110, 102, 97, 114, 99, 116, 105, 111, 110>>,   \* myocardial infarction
    <<112, 117, 108, 109, 111, 110, 97, 114, 121, 32, 101, 109, 98, 111, 108, 105, 115, 109>>,   \* pulmonary embolism
    <<115, 101, 112, 116, 105, 99, 32, 115, 104, 111, 99, 107, 32, 112, 114, 111, 116, 111, 99, 111, 108>>,   \* septic shock protocol
    <<116, 114, 97, 117, 109, 97, 32, 97, 115, 115, 101, 115, 115, 109, 101, 110, 116>>,   \* trauma assessment
    <<116, 114, 105, 97, 103, 101, 32, 99, 108, 97, 115, 115, 105, 102, 105, 99, 97, 116, 105, 111, 110>>,   \* triage classification
    <<99, 114, 105, 116, 105, 99, 97, 108, 32, 99, 97, 114, 101, 32, 117, 110, 105, 116>>,   \* critical care unit
    <<114, 111, 98, 111, 116, 105, 99, 32, 115, 117, 114, 103, 101, 114, 121>>,   \* robotic surgery
    <<112, 114, 111, 115, 116, 104, 101, 116, 105, 99, 32, 108, 105, 109, 98, 32, 99, 111, 110, 116, 114, 111, 108>>,   \* prosthetic limb control
    <<110, 101, 117, 114, 97, 108, 32, 105, 110, 116, 101, 114, 102, 97, 99, 101>>,   \* neural interface
    <<115, 119, 97, 114, 109, 32, 105, 110, 116, 101, 108, 108, 105, 103, 101, 110, 99, 101>>,   \* swarm intelligence
    <<100, 105, 115, 116, 114, 105, 98, 117, 116, 101, 100, 32, 99, 111, 110, 115, 101, 110, 115, 117, 115>>,   \* distributed consensus
    <<102, 97, 117, 108, 116, 32, 116, 111, 108, 101, 114, 97, 110, 99, 101>>,   \* fault tolerance
    <<115, 101, 109, 97, 110, 116, 105, 99, 32, 115, 105, 109, 105, 108, 97, 114, 105, 116, 121>>,   \* semantic similarity
    <<101, 109, 98, 101, 100, 100, 105, 110, 103, 32, 115, 112, 97, 99, 101>>,   \* embedding space
    <<118, 101, 99, 116, 111, 114, 32, 113, 117, 97, 110, 116, 105, 122, 97, 116, 105, 111, 110>>   \* vector quantization
  >>
-----------------------------------------------------------------------------
(* Python dict and str primitives the engine uses *)

Min(a, b) == IF a <= b THEN a ELSE b

(* k in d *)
DictHas(d, k) == \E i \in 1..Len(d) : d[i][1] = k

(* d.get(k, default); d[k] when k is a key *)
DictGet(d, k, default) ==
    IF DictHas(d, k)
    THEN d[CHOOSE i \in 1..Len(d) : d[i][1] = k][2]
    ELSE default

(* the positions 1..k as a sequence *)
Indices(k) == [i \in 1..k |-> i]

(* dict(items): a key stands where it first occurs and holds the value of
   its last occurrence, as when the items are inserted one after another *)
DictFromItems(items) ==
    LET firsts == SelectSeq(Indices(Len(items)),
                      LAMBDA i : \A j \in 1..(i - 1) : items[j][1] # items[i][1])
        last(k) == CHOOSE i \in 1..Len(items) :
                      /\ items[i][1] = k
                      /\ \A j \in (i + 1)..Len(items) : items[j][1] # k
    IN  [p \in 1..Len(firsts) |->
            <<items[firsts[p]][1], items[last(items[firsts[p]][1])][2]>>]

(* ReverseDict keeping, for a value two keys share, the key inserted first *)
ReverseDictFirstWins(d) ==
    DictFromItems([i \in 1..Len(d) |-> <<d[Len(d) + 1 - i][2], d[Len(d) + 1 - i][1]>>])

(* ReverseDict that copies the dictionary without swapping keys and values *)
ReverseDictNotInverted(d) == DictFromItems(d)

(* {v: k for k, v in d.items()} *)
ReverseDict(d) == DictFromItems([i \in 1..Len(d) |-> <<d[i][2], d[i][1]>>])

(* {**a, **b, **c} *)
MergeDicts(a, b, c) == DictFromItems(a \o b \o c)

(* ''.join(parts) *)
RECURSIVE ConcatRange(_, _, _)
ConcatRange(parts, lo, hi) ==
    IF lo > hi THEN <<>>
    ELSE IF lo = hi THEN parts[lo]
    ELSE LET mid == (lo + hi) \div 2
         IN  ConcatRange(parts, lo, mid) \o ConcatRange(parts, mid + 1, hi)

Concat(parts) == ConcatRange(parts, 1, Len(parts))

(* c.lower() of one character: a str, which for U+0130 has two characters *)
LowerChar(c) ==
    IF c \in 65..90 THEN <<c + 32>>
    ELSE IF c = 304 THEN <<105, 775>>
    ELSE <<c>>

(* s.lower() *)
Lower(s) == Concat([i \in 1..Len(s) |-> LowerChar(s[i])])

(* c.isalpha() of one character *)
IsAlpha(c) == c \in 65..90 \/ c \in 97..122 \/ c = 304

(* the characters str.split() with no argument splits on *)
IsSpace(c) == c \in 9..13 \/ c \in 28..32 \/ c = 133 \/ c = 160

(* Prefix without the cut *)
PrefixUncut(s, k) == s

(* s[:k] *)
Prefix(s, k) == SubSeq(s, 1, Min(k, Len(s)))

(* s[1:] *)
DropFirst(s) == SubSeq(s, 2, Len(s))

(* s.startswith(p) at position i (1-based) *)
MatchAt(s, p, i) ==
    /\ i + Len(p) - 1 <= Len(s)
    /\ \A j \in 1..Len(p) : s[i + j - 1] = p[j]

(* s.replace(pat, rep) for a non-empty pat: the occurrences are found from
   the left and do not overlap *)
RECURSIVE ReplaceFrom(_, _, _, _)
ReplaceFrom(s, pat, rep, i) ==
    LET hits == {j \in i..Len(s) : MatchAt(s, pat, j)}
    IN  IF hits = {} THEN SubSeq(s, i, Len(s))
        ELSE LET j == CHOOSE x \in hits : \A y \in hits : x <= y
             IN  SubSeq(s, i, j - 1) \o rep \o ReplaceFrom(s, pat, rep, j + Len(pat))

Replace(s, pat, rep) == ReplaceFrom(s, pat, rep, 1)

(* s.split(sep) for a one-character sep: empty tokens are kept, and the
   empty string splits to one empty token *)
Split(s, sep) ==
    LET at == SelectSeq(Indices(Len(s)), LAMBDA i : s[i] = sep)
        from(k) == IF k = 1 THEN 1 ELSE at[k - 1] + 1
        upto(k) == IF k = Len(at) + 1 THEN Len(s) ELSE at[k] - 1
    IN  [k \in 1..(Len(at) + 1) |-> SubSeq(s, from(k), upto(k))]

(* s.split(): runs of whitespace separate, no empty token is produced *)
SplitWs(s) ==
    LET starts == SelectSeq(Indices(Len(s)),
                      LAMBDA i : ~IsSpace(s[i]) /\ (i = 1 \/ IsSpace(s[i - 1])))
        stop(i) == CHOOSE j \in i..Len(s) :
                      /\ \A m \in i..j : ~IsSpace(s[m])
                      /\ (j = Len(s) \/ IsSpace(s[j + 1]))
    IN  [k \in 1..Len(starts) |-> SubSeq(s, starts[k], stop(starts[k]))]

(* sep.join(parts) *)
Join(parts, sep) ==
    Concat([i \in 1..Len(parts) |-> IF i = 1 THEN parts[i] ELSE sep \o parts[i]])

(* the largest len(key) of a dict's items, 0 for an empty dict *)
MaxKeyLen(d) ==
    IF d = <<>> THEN 0
    ELSE LET lens == {Len(d[i][1]) : i \in 1..Len(d)}
         IN  CHOOSE l \in lens : \A m \in lens : m <= l

(* sorted(d.items(), key=lambda x: -len(x[0])): longest keys first, and, the
   sort being stable, keys of equal length in insertion order *)
RECURSIVE SortedFrom(_, _)
SortedFrom(d, l) ==
    IF l < 1 THEN <<>>
    ELSE SelectSeq(d, LAMBDA it : Len(it[1]) = l) \o SortedFrom(d, l - 1)

SortedByKeyLenDesc(d) == SortedFrom(d, MaxKeyLen(d))

(* MaxByLen taking the last word of the largest length *)
MaxByLenLast(ws) ==
    ws[CHOOSE i \in 1..Len(ws) :
           /\ \A j \in 1..Len(ws) : Len(ws[j]) <= Len(ws[i])
           /\ \A j \in (i + 1)..Len(ws) : Len(ws[j]) < Len(ws[i])]

(* max(ws, key=len) of a non-empty list: the first word of the largest length *)
MaxByLen(ws) ==
    ws[CHOOSE i \in 1..Len(ws) :
           /\ \A j \in 1..Len(ws) : Len(ws[j]) <= Len(ws[i])
           /\ \A j \in 1..(i - 1) : Len(ws[j]) < Len(ws[i])]

-----------------------------------------------------------------------------
(* The engine: src/generate_hybrid.py lines 77-134 and its counterparts *)

(* src/braille_tokenizer.py: braille_cells = [chr(0x2800 + i) for i in range(256)] *)
braille_cells == {10240 + i : i \in 0..255}

BlankCell == 10240
Space == 32

G1_REVERSE == ReverseDict(G1_MAP)
G2_ALL == MergeDicts(G2_STRONG, G2_WORDSIGNS, G2_LOWER)
G2_REVERSE == ReverseDict(G2_ALL)
val_G1_REVERSE == ReverseDict(val_G1_MAP)

(* the tables one Grade-2 encoder reads *)
HybridTables ==
    [g1 |-> G1_MAP, strong |-> G2_STRONG, wordsigns |-> G2_WORDSIGNS,
     lower |-> G2_LOWER, groupsigns |-> G2_GROUPSIGNS]

(* DataTables with an empty Groupsign table *)
DataTablesNoGroupsigns ==
    [g1 |-> gd_G1_MAP, strong |-> gd_G2_STRONG, wordsigns |-> gd_G2_WORDSIGNS,
     lower |-> gd_G2_LOWER, groupsigns |-> <<>>]

DataTables ==
    [g1 |-> gd_G1_MAP, strong |-> gd_G2_STRONG, wordsigns |-> gd_G2_WORDSIGNS,
     lower |-> gd_G2_LOWER, groupsigns |-> gd_G2_GROUPSIGNS]

(* ModuleTables with 'the' entered in the Wordsign table as well, as 'that' is *)
ModuleTablesSharedKey ==
    [g1 |-> G1_MAP, strong |-> G2_STRONG,
     wordsigns |-> G2_WORDSIGNS \o <<<<<<116, 104, 101>>, <<10270>>>>>>,
     lower |-> G2_LOWER, groupsigns |-> G2_GROUPSIGNS,
     g1_reverse |-> G1_REVERSE, g2_all |-> G2_ALL, g2_reverse |-> G2_REVERSE]

(* the module-level dictionaries of generate_hybrid.py once lines 36-80 have
   run: the five literal tables and the three derived ones *)
ModuleTables ==
    [g1 |-> G1_MAP, strong |-> G2_STRONG, wordsigns |-> G2_WORDSIGNS,
     lower |-> G2_LOWER, groupsigns |-> G2_GROUPSIGNS,
     g1_reverse |-> G1_REVERSE, g2_all |-> G2_ALL, g2_reverse |-> G2_REVERSE]

(* G1Cell with an unmapped character skipped instead of blanked *)
G1CellSkip(map, c) == DictGet(map, LowerChar(c), <<>>)

(* G1Cell without the lower-casing *)
G1CellNoLower(map, c) == DictGet(map, <<c>>, <<BlankCell>>)

(* G1Cell with the cell of '?' for an unmapped character, where the table has one *)
G1CellUnknownMark(map, c) ==
    DictGet(map, LowerChar(c), DictGet(map, <<63>>, <<BlankCell>>))

(* G1Cell copying an unmapped character through, as the Grade-2 loop does *)
G1CellCopy(map, c) == DictGet(map, LowerChar(c), <<c>>)

(* G1_MAP.get(c.lower(), BLANK) for one character c *)
G1Cell(map, c) == DictGet(map, LowerChar(c), <<BlankCell>>)

(* EncodeG1With leaving a space as it is instead of looking it up *)
EncodeG1WithSpaceKept(map, t) ==
    Concat([i \in 1..Len(t) |-> IF t[i] = Space THEN <<Space>> ELSE G1Cell(map, t[i])])

(* ''.join(G1_MAP.get(c.lower(), BLANK) for c in text) *)
EncodeG1With(map, t) == Concat([i \in 1..Len(t) |-> G1Cell(map, t[i])])

(* DecodeG1With dropping a cell that has no match *)
DecodeG1WithSkip(rev, b) ==
    Concat([i \in 1..Len(b) |-> DictGet(rev, <<b[i]>>, <<>>)])

(* ''.join(G1_REVERSE.get(c, ' ') for c in braille) *)
DecodeG1With(rev, b) ==
    Concat([i \in 1..Len(b) |-> DictGet(rev, <<b[i]>>, <<Space>>)])

encode_g1(t) == EncodeG1With(G1_MAP, t)
decode_g1(b) == DecodeG1With(G1_REVERSE, b)
to_braille_g1(t) == EncodeG1With(gd_G1_MAP, t)
val_encode_g1(t) == EncodeG1With(val_G1_MAP, t)
val_decode_g1(b) == DecodeG1With(val_G1_REVERSE, b)

(* ApplyGroupsigns substituting nothing *)
ApplyGroupsignsNone(contracted, pats, i) == contracted

(* the loop over the sorted groupsigns:
   contracted = contracted.replace(pattern, braille)
   (an empty string stays empty under every replace) *)
RECURSIVE ApplyGroupsigns(_, _, _)
ApplyGroupsigns(contracted, pats, i) ==
    IF i > Len(pats) \/ contracted = <<>> THEN contracted
    ELSE ApplyGroupsigns(Replace(contracted, pats[i][1], pats[i][2]), pats, i + 1)

(* the loop building `final`: a character that is a key of G1_MAP gives its
   cell, any other character is copied *)
ConvertRemaining(map, contracted) ==
    Concat([i \in 1..Len(contracted) |->
               IF DictHas(map, <<contracted[i]>>)
               THEN DictGet(map, <<contracted[i]>>, <<>>)
               ELSE <<contracted[i]>>])

(* GroupsignOrder sorted by len instead of -len: shortest keys first *)
GroupsignOrderAscending(groupsigns) ==
    LET byLen(l) == SelectSeq(groupsigns, LAMBDA it : Len(it[1]) = l)
    IN  Concat([l \in 1..MaxKeyLen(groupsigns) |-> byLen(l)])

(* GroupsignOrder with keys of equal length in reverse insertion order *)
GroupsignOrderTiesReversed(groupsigns) ==
    SortedByKeyLenDesc([i \in 1..Len(groupsigns) |-> groupsigns[Len(groupsigns) + 1 - i]])

(* the groupsign order of the else branch *)
GroupsignOrder(groupsigns) == SortedByKeyLenDesc(groupsigns)

(* EncodeWord without the Strong Contraction lookup *)
EncodeWordNoStrong(T, word) ==
    IF DictHas(T.wordsigns, word) THEN DictGet(T.wordsigns, word, <<>>)
    ELSE IF DictHas(T.lower, word) THEN DictGet(T.lower, word, <<>>)
    ELSE ConvertRemaining(T.g1,
             ApplyGroupsigns(word, SortedByKeyLenDesc(T.groupsigns), 1))

(* the body of `for word in words`: what is appended to result *)
EncodeWord(T, word) ==
    IF DictHas(T.strong, word) THEN DictGet(T.strong, word, <<>>)
    ELSE IF DictHas(T.wordsigns, word) THEN DictGet(T.wordsigns, word, <<>>)
    ELSE IF DictHas(T.lower, word) THEN DictGet(T.lower, word, <<>>)
    ELSE ConvertRemaining(T.g1,
             ApplyGroupsigns(word, GroupsignOrder(T.groupsigns), 1))

(* JoinWords with the words concatenated and no separator *)
JoinWordsNoSeparator(result) == Concat(result)

(* JoinWords with the separator after every word, the last included *)
JoinWordsTrailing(result) ==
    Concat([i \in 1..Len(result) |-> result[i] \o <<BlankCell>>])

(* BLANK.join(result) *)
JoinWords(result) == Join(result, <<BlankCell>>)

(* WordsOf splitting on runs of whitespace: text.lower().split() *)
WordsOfWhitespace(t) == SplitWs(Lower(t))

(* text.lower().split(' ') *)
WordsOf(t) == Split(Lower(t), Space)

EncodeG2With(T, t) ==
    LET ws == WordsOf(t)
    IN  JoinWords([i \in 1..Len(ws) |-> EncodeWord(T, ws[i])])

encode_g2(t) == EncodeG2With(HybridTables, t)
to_braille_g2(t) == EncodeG2With(DataTables, t)

(* [w[0] for w in words if w and w[0].isalpha()] *)
FirstLetters(ws) ==
    LET keep == SelectSeq(ws, LAMBDA w : w # <<>> /\ IsAlpha(w[1]))
    IN  [i \in 1..Len(keep) |-> keep[i][1]]

(* ''.join(G1_MAP.get(l, BLANK) for l in letters) *)
EncodeLetters(map, ls) ==
    Concat([i \in 1..Len(ls) |-> DictGet(map, <<ls[i]>>, <<BlankCell>>)])

(* f"Uses letters: {', '.join(letters)} from key words" *)
Reasoning(ls) ==
    <<85, 115, 101, 115, 32, 108, 101, 116, 116, 101, 114, 115, 58, 32>>
        \o Join([i \in 1..Len(ls) |-> <<ls[i]>>], <<44, 32>>)
        \o <<32, 102, 114, 111, 109, 32, 107, 101, 121, 32, 119, 111, 114, 100, 115>>

-----------------------------------------------------------------------------
(* The inputs the operations are called with *)

StringsUpTo(S, k) == UNION {[1..m -> S] : m \in 0..k}

KeysOf(d) == {d[i][1] : i \in 1..Len(d)}
ValuesOf(d) == {d[i][2] : i \in 1..Len(d)}
Elems(s) == {s[i] : i \in 1..Len(s)}

(* every key of the Grade-1 tables, the upper-case letters, and characters
   no table has: '@', TAB, U+0130, a Braille cell *)
G1Chars ==
    {k[1] : k \in KeysOf(G1_MAP)} \cup (65..90) \cup {64, 9, 304, 10241}

(* a, z, A, space, comma, 1, @ *)
G1Small == {97, 122, 65, 32, 44, 49, 64}

G1Inputs ==
    {<<c>> : c \in G1Chars} \cup StringsUpTo(G1Small, MaxLenG1)
        \cup Elems(ENGLISH_PHRASES)
        \cup { <<104, 101, 108, 108, 111>>,                \* hello
               <<72, 101, 108, 108, 111>> }                \* Hello

(* t, h, e, i, n, g, space, T, @, the blank cell *)
G2Small == {116, 104, 101, 105, 110, 103, 32, 84, 64, 10240}

G2Probes ==
    KeysOf(G2_ALL) \cup KeysOf(G2_GROUPSIGNS) \cup KeysOf(gd_G2_LOWER)
        \cup Elems(ENGLISH_PHRASES)
        \cup { <<116, 104, 105, 110, 103>>,                \* thing
               <<116, 104, 101, 32, 99, 97, 116>>,         \* the cat
               <<116, 104, 105, 110, 107>>,                \* think
               <<116, 97, 98, 108, 101>>,                  \* table
               <<97, 115, 116, 104, 109, 97>>,             \* asthma
               <<110, 111, 119, 104, 101, 114, 101>>,      \* nowhere
               <<304>> }                                   \* U+0130
        \cup {<<c>> : c \in 97..122}                       \* each letter as a word

G2Inputs == StringsUpTo(G2Small, MaxLenG2) \cup G2Probes

(* any cell a Grade-1 table produces, a cell none produces, and a letter *)
DecChars ==
    {v[1] : v \in ValuesOf(G1_MAP)} \cup {10303, 97}

(* the cells of 'a', of ',' and '1', the blank cell, a cell no table has, 'a' *)
DecSmall == {10241, 10242, 10240, 10303, 97}

DecInputs == {<<c>> : c \in DecChars} \cup StringsUpTo(DecSmall, MaxLenDec)

(* a, b, A, 3, space, TAB *)
CSmall == {97, 98, 65, 51, 32, 9}

CompressInputs == StringsUpTo(CSmall, MaxLenC) \cup Elems(DOMAIN_CONCEPTS)
    \cup Elems(ENGLISH_PHRASES)

(* generate_discovery_example: n_cells = random.randint(2, 4) *)
DiscoveryCells == 2..4

(* generate_compression_example: n_cells = random.randint(2, 3) *)
CompressionCells == 2..3

(* validate.py probe_compression: test_cases *)
test_cases ==
    { <<<<101, 109, 101, 114, 103, 101, 110, 99, 121, 32, 109, 101, 100, 105, 99,
          97, 108, 32, 114, 101, 115, 112, 111, 110, 115, 101>>, 3>>,   \* emergency medical response
      <<<<98, 108, 111, 111, 100, 32, 112, 114, 101, 115, 115, 117, 114, 101, 32,
          109, 111, 110, 105, 116, 111, 114>>, 3>>,                     \* blood pressure monitor
      <<<<97, 114, 116, 105, 102, 105, 99, 105, 97, 108, 32, 105, 110, 116, 101,
          108, 108, 105, 103, 101, 110, 99, 101>>, 2>> }                \* artificial intelligence

(* the (text, n) pairs compress_to_n_cells is called with: the bounded
   inputs, what the two generators draw, and the probe cases *)
CompressArgs ==
    (CompressInputs \X (1..MaxN))
        \cup (Elems(DOMAIN_CONCEPTS) \X (DiscoveryCells \cup CompressionCells))
        \cup test_cases

-----------------------------------------------------------------------------
(* The state machine: one call at a time, from "idle" to "done" *)

(* the threads or processes that call the engine side by side *)
Callers == 1..NumCallers

(* a caller with no call in progress *)
NoCall ==
    [pc |-> "idle", op |-> "none", text |-> <<>>, n |-> 0, ret |-> <<>>,
     reasoning |-> <<>>, words |-> <<>>, letters |-> <<>>, longest |-> <<>>,
     idx |-> 0]

Init ==
    /\ pc = "idle"
    /\ op = "none"
    /\ text = <<>>
    /\ n = 0
    /\ chained = FALSE
    /\ source = <<>>
    /\ ret = <<>>
    /\ reasoning = <<>>
    /\ words = <<>>
    /\ letters = <<>>
    /\ longest = <<>>
    /\ idx = 0
    /\ tables = ModuleTables
    /\ callers = [c \in Callers |-> NoCall]

(* a call of a one-argument pure function f, named name, on t *)
Returns(name, t, r) ==
    /\ pc' = "done"
    /\ op' = name
    /\ text' = t
    /\ ret' = r
    /\ UNCHANGED <<n, reasoning, words, letters, longest, idx, callers>>

(* CallEncodeG1 with a memoising encoder: G1_MAP.setdefault(c.lower(), BLANK) *)
CallEncodeG1Memo ==
    /\ pc = "idle"
    /\ \E t \in G1Inputs :
          LET low == Lower(t)
              miss == SelectSeq(low, LAMBDA c : ~DictHas(tables.g1, <<c>>))
          IN  /\ Returns("encode_g1", t, EncodeG1With(tables.g1, t))
              /\ tables' = [tables EXCEPT !.g1 =
                                @ \o [i \in 1..Len(miss) |-> <<<<miss[i]>>, <<BlankCell>>>>]]
    /\ UNCHANGED <<chained, source>>

CallEncodeG1 ==
    /\ pc = "idle"
    /\ \E t \in G1Inputs : Returns("encode_g1", t, EncodeG1With(tables.g1, t))
    /\ UNCHANGED <<chained, source, tables>>

CallToBrailleG1 ==
    /\ pc = "idle"
    /\ \E t \in G1Inputs : Returns("to_braille_g1", t, to_braille_g1(t))
    /\ UNCHANGED <<chained, source, tables>>

CallValEncodeG1 ==
    /\ pc = "idle"
    /\ \E t \in G1Inputs : Returns("val_encode_g1", t, val_encode_g1(t))
    /\ UNCHANGED <<chained, source, tables>>

CallDecodeG1 ==
    /\ pc = "idle"
    /\ \E b \in DecInputs : Returns("decode_g1", b, DecodeG1With(tables.g1_reverse, b))
    /\ UNCHANGED <<chained, source, tables>>

CallValDecodeG1 ==
    /\ pc = "idle"
    /\ \E b \in DecInputs : Returns("val_decode_g1", b, val_decode_g1(b))
    /\ UNCHANGED <<chained, source, tables>>

(* decode_g1(encode_g1(s)): the decode of what the encode just returned *)
DecodeEncoded ==
    /\ pc = "done"
    /\ op = "encode_g1"
    /\ Returns("decode_g1", ret, DecodeG1With(tables.g1_reverse, ret))
    /\ chained' = TRUE
    /\ source' = text
    /\ UNCHANGED tables

ValDecodeEncoded ==
    /\ pc = "done"
    /\ op = "val_encode_g1"
    /\ Returns("val_decode_g1", ret, val_decode_g1(ret))
    /\ chained' = TRUE
    /\ source' = text
    /\ UNCHANGED tables

CallEncodeG2 ==
    /\ pc = "idle"
    /\ \E t \in G2Inputs : Returns("encode_g2", t, EncodeG2With(tables, t))
    /\ UNCHANGED <<chained, source, tables>>

CallToBrailleG2 ==
    /\ pc = "idle"
    /\ \E t \in G2Inputs : Returns("to_braille_g2", t, to_braille_g2(t))
    /\ UNCHANGED <<chained, source, tables>>

(* compress_to_n_cells, lines 123-124 *)
CompressCall ==
    /\ pc = "idle"
    /\ \E a \in CompressArgs :
          /\ text' = a[1]
          /\ n' = a[2]
          /\ words' = SplitWs(Lower(a[1]))
          /\ letters' = Prefix(FirstLetters(SplitWs(Lower(a[1]))), a[2])
    /\ op' = "compress_to_n_cells"
    /\ pc' = "while"
    /\ UNCHANGED <<chained, source, ret, reasoning, longest, idx, tables, callers>>

(* CompressWhile without the padding loop *)
CompressWhileNoPad ==
    /\ pc = "while"
    /\ pc' = "return"
    /\ UNCHANGED <<longest, idx>>
    /\ UNCHANGED <<op, text, n, chained, source, ret, reasoning, words, letters, tables, callers>>

(* line 125, and line 127 when the loop is entered *)
CompressWhile ==
    /\ pc = "while"
    /\ IF Len(letters) < n /\ words # <<>>
       THEN /\ longest' = MaxByLen(words)
            /\ idx' = 1
            /\ pc' = "for"
       ELSE /\ pc' = "return"
            /\ UNCHANGED <<longest, idx>>
    /\ UNCHANGED <<op, text, n, chained, source, ret, reasoning, words, letters, tables, callers>>

(* lines 128-130: one iteration of `for c in longest[1:]`, or its end *)
CompressFor ==
    /\ pc = "for"
    /\ IF idx > Len(DropFirst(longest))
       THEN /\ pc' = "while"
            /\ UNCHANGED <<letters, idx>>
       ELSE /\ letters' =
                  IF IsAlpha(DropFirst(longest)[idx]) /\ Len(letters) < n
                  THEN Append(letters, DropFirst(longest)[idx])
                  ELSE letters
            /\ idx' = idx + 1
            /\ pc' = "for"
    /\ UNCHANGED <<op, text, n, chained, source, ret, reasoning, words, longest, tables, callers>>

(* CompressReturn filling the cells up to n with blank cells *)
CompressReturnPadded ==
    /\ pc = "return"
    /\ letters' = Prefix(letters, n)
    /\ ret' = EncodeLetters(tables.g1, Prefix(letters, n))
                  \o [i \in 1..(n - Len(Prefix(letters, n))) |-> BlankCell]
    /\ reasoning' = Reasoning(Prefix(letters, n))
    /\ pc' = "done"
    /\ UNCHANGED <<op, text, n, chained, source, words, longest, idx, tables, callers>>

(* lines 131-134 *)
CompressReturn ==
    /\ pc = "return"
    /\ letters' = Prefix(letters, n)
    /\ ret' = EncodeLetters(tables.g1, Prefix(letters, n))
    /\ reasoning' = Reasoning(Prefix(letters, n))
    /\ pc' = "done"
    /\ UNCHANGED <<op, text, n, chained, source, words, longest, idx, tables, callers>>

(* the caller takes the result; the locals of the call are gone, the module's
   dictionaries stay *)
Finish ==
    /\ pc = "done"
    /\ pc' = "idle"
    /\ op' = "none"
    /\ text' = <<>>
    /\ n' = 0
    /\ chained' = FALSE
    /\ source' = <<>>
    /\ ret' = <<>>
    /\ reasoning' = <<>>
    /\ words' = <<>>
    /\ letters' = <<>>
    /\ longest' = <<>>
    /\ idx' = 0
    /\ UNCHANGED <<tables, callers>>

Next ==
    \/ CallEncodeG1
    \/ CallToBrailleG1
    \/ CallValEncodeG1
    \/ CallDecodeG1
    \/ CallValDecodeG1
    \/ DecodeEncoded
    \/ ValDecodeEncoded
    \/ CallEncodeG2
    \/ CallToBrailleG2
    \/ CompressCall
    \/ CompressWhile
    \/ CompressFor
    \/ CompressReturn
    \/ Finish

Spec == Init /\ [][Next]_vars

(* the statements of compress_to_n_cells after its entry *)
CompressStep ==
    \/ CompressWhile
    \/ CompressFor
    \/ CompressReturn

(* a call of compress_to_n_cells runs on: a sequential program executes its
   next statement as long as it has one *)
FairSpec == Init /\ [][Next]_vars /\ WF_vars(CompressStep)

-----------------------------------------------------------------------------
(* Concurrent callers. Each caller runs one call at a time; the calls of
   different callers interleave statement by statement and share nothing but
   the module's dictionaries. encode_g1, decode_g1 and encode_g2 read the
   dictionaries between their entry and their return; compress_to_n_cells
   is stepped as above. *)

(* what the concurrent callers pass: '@', 'the' and 'a b' as text, the cell
   of ',' and a cell without a key as Braille, and 'abc' and 'a b' to
   compress to two cells, the first of which needs padding *)
ConcTexts == { <<64>>, <<116, 104, 101>>, <<97, 32, 98>> }

ConcCells == { <<10242>>, <<10303>> }

ConcCalls ==
    ({"encode_g1", "encode_g2"} \X ConcTexts) \cup ({"decode_g1"} \X ConcCells)

ConcCompressArgs == { << <<97, 98, 99>>, 2 >>, << <<97, 32, 98>>, 2 >> }

(* the state of the engine's single-call variables, which the concurrent
   callers do not use *)
callvars == <<pc, op, text, n, chained, source, ret, reasoning, words, letters, longest, idx>>

(* ThreadReturn with memoising functions: G1_MAP.setdefault(c.lower(), BLANK)
   in encode_g1 and G1_REVERSE.setdefault(c, ' ') in decode_g1 *)
ThreadReturnMemo(c) ==
    LET me == callers[c]
        missKeys == SelectSeq(Lower(me.text), LAMBDA x : ~DictHas(tables.g1, <<x>>))
        missCells == SelectSeq(me.text, LAMBDA x : ~DictHas(tables.g1_reverse, <<x>>))
    IN  /\ me.pc = "running"
        /\ callers' = [callers EXCEPT ![c].pc = "done", ![c].ret =
               CASE me.op = "encode_g1" -> EncodeG1With(tables.g1, me.text)
                 [] me.op = "decode_g1" -> DecodeG1With(tables.g1_reverse, me.text)
                 [] me.op = "encode_g2" -> EncodeG2With(tables, me.text)]
        /\ tables' =
               CASE me.op = "encode_g1" ->
                      [tables EXCEPT !.g1 =
                          @ \o [i \in 1..Len(missKeys) |-> <<<<missKeys[i]>>, <<BlankCell>>>>]]
                 [] me.op = "decode_g1" ->
                      [tables EXCEPT !.g1_reverse =
                          @ \o [i \in 1..Len(missCells) |-> <<<<missCells[i]>>, <<Space>>>>]]
                 [] me.op = "encode_g2" -> tables
        /\ UNCHANGED callvars

(* caller c enters encode_g1, decode_g1 or encode_g2 *)
ThreadCall(c) ==
    /\ callers[c].pc = "idle"
    /\ \E a \in ConcCalls :
          callers' = [callers EXCEPT ![c] =
                         [NoCall EXCEPT !.pc = "running", !.op = a[1], !.text = a[2]]]
    /\ UNCHANGED <<tables, callvars>>

(* the function caller c is in reads the dictionaries and returns *)
ThreadReturn(c) ==
    LET me == callers[c]
    IN  /\ me.pc = "running"
        /\ callers' = [callers EXCEPT ![c].pc = "done", ![c].ret =
               CASE me.op = "encode_g1" -> EncodeG1With(tables.g1, me.text)
                 [] me.op = "decode_g1" -> DecodeG1With(tables.g1_reverse, me.text)
                 [] me.op = "encode_g2" -> EncodeG2With(tables, me.text)]
        /\ UNCHANGED <<tables, callvars>>

(* caller c enters compress_to_n_cells, lines 123-124 *)
ThreadCompressCall(c) ==
    /\ callers[c].pc = "idle"
    /\ \E a \in ConcCompressArgs :
          callers' = [callers EXCEPT ![c] =
                         [NoCall EXCEPT !.pc = "while", !.op = "compress_to_n_cells",
                                        !.text = a[1], !.n = a[2],
                                        !.words = SplitWs(Lower(a[1])),
                                        !.letters = Prefix(FirstLetters(SplitWs(Lower(a[1]))), a[2])]]
    /\ UNCHANGED <<tables, callvars>>

(* line 125, and line 127 when the loop is entered *)
ThreadCompressWhile(c) ==
    LET me == callers[c]
    IN  /\ me.pc = "while"
        /\ callers' =
               IF Len(me.letters) < me.n /\ me.words # <<>>
               THEN [callers EXCEPT ![c].longest = MaxByLen(me.words),
                                    ![c].idx = 1, ![c].pc = "for"]
               ELSE [callers EXCEPT ![c].pc = "return"]
        /\ UNCHANGED <<tables, callvars>>

(* lines 128-130 *)
ThreadCompressFor(c) ==
    LET me == callers[c]
    IN  /\ me.pc = "for"
        /\ callers' =
               IF me.idx > Len(DropFirst(me.longest))
               THEN [callers EXCEPT ![c].pc = "while"]
               ELSE [callers EXCEPT
                        ![c].letters =
                            IF IsAlpha(DropFirst(me.longest)[me.idx]) /\ Len(me.letters) < me.n
                            THEN Append(me.letters, DropFirst(me.longest)[me.idx])
                            ELSE me.letters,
                        ![c].idx = me.idx + 1]
        /\ UNCHANGED <<tables, callvars>>

(* lines 131-134 *)
ThreadCompressReturn(c) ==
    LET me == callers[c]
    IN  /\ me.pc = "return"
        /\ callers' = [callers EXCEPT
                          ![c].letters = Prefix(me.letters, me.n),
                          ![c].ret = EncodeLetters(tables.g1, Prefix(me.letters, me.n)),
                          ![c].reasoning = Reasoning(Prefix(me.letters, me.n)),
                          ![c].pc = "done"]
        /\ UNCHANGED <<tables, callvars>>

(* caller c takes the result *)
ThreadFinish(c) ==
    /\ callers[c].pc = "done"
    /\ callers' = [callers EXCEPT ![c] = NoCall]
    /\ UNCHANGED <<tables, callvars>>

ConcNext ==
    \E c \in Callers :
        \/ ThreadCall(c)
        \/ ThreadReturn(c)
        \/ ThreadCompressCall(c)
        \/ ThreadCompressWhile(c)
        \/ ThreadCompressFor(c)
        \/ ThreadCompressReturn(c)
        \/ ThreadFinish(c)

ConcSpec == Init /\ [][ConcNext]_vars

-----------------------------------------------------------------------------
(* Properties of the engine *)

Done(name) == pc = "done" /\ op = name

IsCell(c) == c \in 10240..10495

Count(s, c) == Cardinality({i \in 1..Len(s) : s[i] = c})

(* the positions at which pat occurs in s *)
Occurrences(s, pat) == {i \in 1..Len(s) : MatchAt(s, pat, i)}

InWholeWordTable(T, w) ==
    DictHas(T.strong, w) \/ DictHas(T.wordsigns, w) \/ DictHas(T.lower, w)

(* C1: Grade-1 round trip. For every string s made only of keys of the
   Grade-1 table of generate_hybrid.py, decode_g1(encode_g1(s)) is s
   lower-cased. *)
C1_G1RoundTrip ==
    (Done("decode_g1") /\ chained
        /\ \A i \in 1..Len(source) : DictHas(G1_MAP, <<source[i]>>))
    => ret = Lower(source)

(* C2: compress_to_n_cells terminates: a call that has reached its while
   loop eventually returns. *)
C2_CompressTerminates ==
    (op = "compress_to_n_cells" /\ pc = "while") ~> (pc = "done")

(* C3: when the initials and the letters of the longest word after its
   first character supply fewer than n letters, compress_to_n_cells returns
   fewer than n cells and pulls no letter of the longest word twice. *)
C3_StopsWhenSourceExhausted ==
    Done("compress_to_n_cells") =>
        LET ws == SplitWs(Lower(text))
            initials == Prefix(FirstLetters(ws), n)
            rest == IF ws = <<>> THEN <<>>
                    ELSE SelectSeq(DropFirst(MaxByLen(ws)), IsAlpha)
        IN  Len(initials) + Len(rest) < n
                => /\ Len(ret) < n
                   /\ Len(letters) - Len(initials) <= Len(rest)

(* C4: compression boundedness. Whenever compress_to_n_cells returns, the
   cell sequence has at most n cells. *)
C4_CompressionBounded ==
    Done("compress_to_n_cells") => Len(ret) <= n

(* a phrase with more initials than n was cut to exactly n cells *)
C4_Witness ==
    /\ Done("compress_to_n_cells")
    /\ Len(FirstLetters(words)) > n
    /\ Len(ret) = n

(* the words of text, each resolved by the first whole-word table that has
   it, appear as that table's value in the output r of an encoder with
   tables T; the output segments are those between separator cells *)
WholeWordsResolved(T, t, r) ==
    LET ws == WordsOf(t)
        segs == Split(r, BlankCell)
    IN  Count(t, BlankCell) = 0 =>
            /\ Len(segs) = Len(ws)
            /\ \A i \in 1..Len(ws) :
                  /\ DictHas(T.strong, ws[i])
                        => segs[i] = DictGet(T.strong, ws[i], <<>>)
                  /\ (~DictHas(T.strong, ws[i]) /\ DictHas(T.wordsigns, ws[i]))
                        => segs[i] = DictGet(T.wordsigns, ws[i], <<>>)
                  /\ (~DictHas(T.strong, ws[i]) /\ ~DictHas(T.wordsigns, ws[i])
                         /\ DictHas(T.lower, ws[i]))
                        => segs[i] = DictGet(T.lower, ws[i], <<>>)

(* C5: Grade-2 precedence. Every word that is a key of a whole-word table
   is encoded as the value of the first of Strong, Wordsign, Lower Wordsign
   that has it; 'the' is the one cell U+282E and 'this' the one cell U+2839. *)
C5_G2Precedence ==
    /\ Done("encode_g2") =>
          /\ WholeWordsResolved(HybridTables, text, ret)
          /\ text = <<116, 104, 101>> => ret = <<10286>>
          /\ text = <<116, 104, 105, 115>> => ret = <<10297>>
    /\ Done("to_braille_g2") => WholeWordsResolved(DataTables, text, ret)

(* 'the' beside another word, encoded as its single Strong Contraction cell *)
C5_Witness ==
    /\ Done("encode_g2")
    /\ Len(WordsOf(text)) = 2
    /\ WordsOf(text)[1] = <<116, 104, 101>>
    /\ WordsOf(text)[2] # <<>>
    /\ ret[1] = 10286

(* in the output r for text t, each word outside the whole-word tables holds
   one cell of a longest groupsign per occurrence of its key *)
LongestGroupsignsKept(T, t, r) ==
    LET ws == WordsOf(t)
        segs == Split(r, BlankCell)
        long == SelectSeq(T.groupsigns,
                    LAMBDA it : Len(it[1]) = MaxKeyLen(T.groupsigns))
    IN  (\A i \in 1..Len(t) : ~IsCell(t[i])) =>
            \A i \in 1..Len(ws) :
                ~InWholeWordTable(T, ws[i]) =>
                    \A k \in 1..Len(long) :
                        Count(segs[i], long[k][2][1])
                            = Cardinality(Occurrences(ws[i], long[k][1]))

(* C6: groupsign longest match. In a word that matches no whole-word table
   every occurrence of a 3-letter groupsign is substituted by its cell, none
   is broken by a 2-letter groupsign; 'thing' is the 'th' cell U+2839
   followed by the 'ing' cell U+282C. *)
C6_GroupsignLongestMatch ==
    /\ Done("encode_g2") =>
          /\ LongestGroupsignsKept(HybridTables, text, ret)
          /\ text = <<116, 104, 105, 110, 103>> => ret = <<10297, 10284>>
    /\ Done("to_braille_g2") => LongestGroupsignsKept(DataTables, text, ret)

(* a word in which 'ing' occurs, whose letters 'in' are a groupsign too *)
C6_Witness ==
    /\ Done("encode_g2")
    /\ Count(text, Space) = 0
    /\ ~InWholeWordTable(HybridTables, Lower(text))
    /\ Occurrences(Lower(text), <<105, 110, 103>>) # {}
    /\ Count(ret, 10284) = 1

(* C7: Grade-1 length invariant. For every input string, mapped characters
   or not, the Grade-1 encoders return exactly one cell per input character. *)
C7_G1LengthInvariant ==
    (pc = "done" /\ op \in {"encode_g1", "to_braille_g1", "val_encode_g1"})
        => Len(ret) = Len(text)

(* an input with a character outside every table *)
C7_Witness ==
    /\ Done("encode_g1")
    /\ Len(text) = 3
    /\ \E i \in 1..Len(text) : ~DictHas(G1_MAP, LowerChar(text[i]))
    /\ \E i \in 1..Len(text) : DictHas(G1_MAP, LowerChar(text[i]))
    /\ Len(ret) = 3

(* C8: encode_g2 resolves words independently and joins them with the
   separator cell: encode_g2(t1 + ' ' + t2) is encode_g2(t1), U+2800,
   encode_g2(t2); 'the cat' is U+282E, U+2800 and the cells of c, a, t. *)
C8_G2WordsJoined ==
    Done("encode_g2") =>
        /\ \A p \in 1..Len(text) :
              text[p] = Space =>
                  ret = encode_g2(SubSeq(text, 1, p - 1)) \o <<BlankCell>>
                            \o encode_g2(SubSeq(text, p + 1, Len(text)))
        /\ text = <<116, 104, 101, 32, 99, 97, 116>>
              => ret = <<10286, 10240, 10249, 10241, 10270>>

(* encode_g2('the cat') has returned *)
C8_Witness ==
    /\ Done("encode_g2")
    /\ text = <<116, 104, 101, 32, 99, 97, 116>>
    /\ Len(ret) = 5

(* the cell of character c under a Grade-1 table: the table's cell for the
   lower-cased character, the blank cell when it is no key *)
ExpectedG1Cell(map, c) ==
    IF \E i \in 1..Len(map) : map[i][1] = LowerChar(c)
    THEN (CHOOSE v \in ValuesOf(map) : \E i \in 1..Len(map) : map[i] = <<LowerChar(c), v>>)[1]
    ELSE 10240

(* C9: encode_g1 encodes every character that, lower-cased, is no key of
   the Grade-1 table as the blank cell U+2800 and every other character as
   its table cell. *)
C9_G1UnmappedIsBlank ==
    /\ Done("encode_g1") =>
          /\ Len(ret) = Len(text)
          /\ \A i \in 1..Len(text) : ret[i] = ExpectedG1Cell(G1_MAP, text[i])
    /\ Done("val_encode_g1") =>
          /\ Len(ret) = Len(text)
          /\ \A i \in 1..Len(text) : ret[i] = ExpectedG1Cell(val_G1_MAP, text[i])

(* an input with '@', which no table has, and the upper-case letter 'A' *)
C9_Witness ==
    /\ Done("encode_g1")
    /\ \E i, j \in 1..Len(text) :
          /\ text[i] = 64 /\ ret[i] = 10240
          /\ text[j] = 65 /\ ret[j] = 10241

(* C10: a word that matches no whole-word table and contains no groupsign
   key is encoded by encode_g2 exactly as encode_g1 encodes it, characters
   absent from the Grade-1 table included, and the output holds only
   Braille cells. *)
C10_G2FallsThroughToG1 ==
    (Done("encode_g2")
        /\ Count(text, Space) = 0
        /\ ~InWholeWordTable(HybridTables, Lower(text))
        /\ \A k \in 1..Len(G2_GROUPSIGNS) :
              Occurrences(Lower(text), G2_GROUPSIGNS[k][1]) = {})
    => /\ ret = encode_g1(text)
       /\ \A i \in 1..Len(ret) : IsCell(ret[i])

(* the first alphabetic character of each word that has one, in word order *)
FirstAlphabetic(ws) ==
    LET has == SelectSeq(ws, LAMBDA w : \E i \in 1..Len(w) : IsAlpha(w[i]))
        first(w) == w[CHOOSE i \in 1..Len(w) :
                         IsAlpha(w[i]) /\ \A j \in 1..(i - 1) : ~IsAlpha(w[j])]
    IN  [k \in 1..Len(has) |-> first(has[k])]

(* C11: compress_to_n_cells step 1. The first letters selected are the
   first alphabetic character of each word, in word order, up to n, also
   for a word whose first character is not alphabetic;
   ('artificial intelligence', 2) gives the cells of 'a' and 'i'. *)
C11_InitialsAreFirstAlphabetic ==
    Done("compress_to_n_cells") =>
        LET firsts == FirstAlphabetic(SplitWs(Lower(text)))
        IN  /\ Prefix(letters, Min(n, Len(firsts))) = Prefix(firsts, n)
            /\ (text = ENGLISH_PHRASES[7] /\ n = 2) => ret = <<10241, 10250>>

(* the first word of the largest length, and its alphabetic characters
   after the first character *)
LongestWord(ws) ==
    ws[CHOOSE i \in 1..Len(ws) :
           /\ \A j \in 1..(i - 1) : Len(ws[j]) < Len(ws[i])
           /\ \A j \in (i + 1)..Len(ws) : Len(ws[j]) <= Len(ws[i])]

PadSource(ws) ==
    IF ws = <<>> THEN <<>>
    ELSE LET w == LongestWord(ws)
         IN  SelectSeq(SubSeq(w, 2, Len(w)), IsAlpha)

(* C12: compress_to_n_cells step 2. When fewer than n initials were
   collected and the longest word (the first among ties) has enough
   alphabetic characters after its first, the letters are the initials
   followed by those characters in order, non-alphabetic ones skipped, up
   to n letters. *)
C12_PaddedFromLongestWord ==
    Done("compress_to_n_cells") =>
        LET ws == SplitWs(Lower(text))
            initials == Prefix(FirstLetters(ws), n)
            need == n - Len(initials)
        IN  (need > 0 /\ Len(PadSource(ws)) >= need)
                => letters = initials \o SubSeq(PadSource(ws), 1, need)

(* a call that padded from a longest word whose second character is not
   alphabetic, skipping it *)
C12_Witness ==
    /\ Done("compress_to_n_cells")
    /\ Len(letters) = n
    /\ Len(FirstLetters(words)) < n
    /\ Len(longest) >= 3
    /\ ~IsAlpha(longest[2])

(* the letters a returned call of compress_to_n_cells(t, k) selects, as a
   function of its arguments: the initials, then the alphabetic characters
   after the first of the longest word, taken again from their start while
   letters are missing *)
LettersOf(t, k) ==
    LET ws == SplitWs(Lower(t))
        initials == Prefix(FirstLetters(ws), k)
        pad == PadSource(ws)
    IN  IF Len(initials) = k \/ pad = <<>> THEN initials
        ELSE [i \in 1..k |->
                 IF i <= Len(initials) THEN initials[i]
                 ELSE pad[((i - Len(initials) - 1) % Len(pad)) + 1]]

(* C13: determinism. Whatever calls were made before, the result of
   encode_g1, decode_g1, encode_g2 and compress_to_n_cells is the value a
   fixed function of the arguments has on the tables as constructed, so two
   calls with identical arguments return identical results. *)
C13_Deterministic ==
    /\ Done("encode_g1") => ret = encode_g1(text)
    /\ Done("decode_g1") => ret = decode_g1(text)
    /\ Done("encode_g2") => ret = encode_g2(text)
    /\ Done("compress_to_n_cells") =>
          /\ ret = EncodeLetters(G1_MAP, LettersOf(text, n))
          /\ reasoning = Reasoning(LettersOf(text, n))

(* a Grade-2 call on a text holding a character no table has, the call an
   encoder that remembered the characters it met would answer differently *)
C13_Witness ==
    /\ Done("encode_g2")
    /\ \E i \in 1..Len(text) : ~DictHas(G1_MAP, LowerChar(text[i]))
    /\ ~InWholeWordTable(HybridTables, Lower(text))
    /\ ret = encode_g2(text)

(* C14: after any sequence or interleaving of encode_g1, decode_g1,
   encode_g2 and compress_to_n_cells calls the Grade-1 table, the four
   Grade-2 tables and the reverse tables are what they were at
   construction. *)
C14_TablesUnchanged == tables = ModuleTables

(* two calls in progress at once: one caller inside the padding loop of
   compress_to_n_cells while another has had decode_g1 look up a cell that
   is no key of G1_REVERSE *)
C14_Witness ==
    \E c, d \in Callers :
        /\ c # d
        /\ callers[c].op = "compress_to_n_cells"
        /\ callers[c].pc = "for"
        /\ callers[c].idx > 1
        /\ callers[d].op = "decode_g1"
        /\ callers[d].pc = "done"
        /\ \E i \in 1..Len(callers[d].text) :
              ~DictHas(G1_REVERSE, <<callers[d].text[i]>>)
        /\ tables = ModuleTables

(* the key a reverse table holds for a cell: the last key of the table, in
   insertion order, whose value is the cell *)
LastKeyFor(map, cell) ==
    LET at == {i \in 1..Len(map) : map[i][2] = <<cell>>}
    IN  map[CHOOSE i \in at : \A j \in at : j <= i][1]

OnePerCell(map, cells, out) ==
    /\ Len(out) = Len(cells)
    /\ \A i \in 1..Len(cells) :
          <<out[i]>> = IF <<cells[i]>> \in ValuesOf(map)
                       THEN LastKeyFor(map, cells[i])
                       ELSE <<Space>>

(* C15: decode_g1 returns exactly one character per input cell: the
   reverse-table key for a cell that is a value of the Grade-1 table, a
   space for any cell or other character with no match. *)
C15_DecodeOnePerCell ==
    /\ Done("decode_g1") => OnePerCell(G1_MAP, text, ret)
    /\ Done("val_decode_g1") => OnePerCell(val_G1_MAP, text, ret)

(* a decode of a cell the table produces next to one it does not *)
C15_Witness ==
    /\ Done("decode_g1")
    /\ \E i \in 1..Len(text) : <<text[i]>> \in ValuesOf(G1_MAP) /\ text[i] # BlankCell
    /\ \E i \in 1..Len(text) : <<text[i]>> \notin ValuesOf(G1_MAP)

IsLetterOrSpace(c) == c \in 65..90 \/ c \in 97..122 \/ c = Space

(* C16: for every string s over the 26 letters, in either case, and the
   space, decode_g1(encode_g1(s)) is s lower-cased, with the table of
   validate.py and with the table of generate_hybrid.py;
   decode_g1(encode_g1('hello')) is 'hello'. *)
C16_LetterRoundTrip ==
    /\ (Done("decode_g1") \/ Done("val_decode_g1")) /\ chained
          /\ (\A i \in 1..Len(source) : IsLetterOrSpace(source[i]))
        => ret = Lower(source)
    /\ (Done("decode_g1") \/ Done("val_decode_g1")) /\ chained
          /\ source = <<104, 101, 108, 108, 111>>
        => ret = <<104, 101, 108, 108, 111>>

(* the round trip of 'Hello' through the table of validate.py *)
C16_Witness ==
    /\ Done("val_decode_g1")
    /\ chained
    /\ source = <<72, 101, 108, 108, 111>>
    /\ ret = <<104, 101, 108, 108, 111>>

(* C17: empty input is not an error. encode_g1('') and encode_g2('') return
   the empty cell sequence, and compress_to_n_cells returns an empty cell
   sequence for the empty phrase and for a phrase of whitespace only, for
   every n >= 1. *)
C17_EmptyInput ==
    /\ (Done("encode_g1") /\ text = <<>>) => ret = <<>>
    /\ (Done("encode_g2") /\ text = <<>>) => ret = <<>>
    /\ (Done("compress_to_n_cells") /\ \A i \in 1..Len(text) : IsSpace(text[i]))
        => ret = <<>>
    /\ (op = "compress_to_n_cells" /\ \A i \in 1..Len(text) : IsSpace(text[i]))
        => pc \in {"while", "return", "done"}

(* the empty phrase compressed to more than one cell has returned *)
C17_Witness ==
    /\ Done("compress_to_n_cells")
    /\ text = <<>>
    /\ n > 1
    /\ ret = <<>>

(* the calls the generators and the probe make *)
GeneratedArgs ==
    (Elems(DOMAIN_CONCEPTS) \X (DiscoveryCells \cup CompressionCells))
        \cup test_cases

(* C18: for every concept of DOMAIN_CONCEPTS and every n the generators
   draw (2, 3 or 4), and for the probe cases of validate.py,
   compress_to_n_cells returns exactly n cells; on these calls the padding
   loop always has a letter to pull. *)
C18_ExactlyNCells ==
    (op = "compress_to_n_cells" /\ <<text, n>> \in GeneratedArgs) =>
        /\ Len(FirstLetters(words)) >= n \/ PadSource(words) # <<>>
        /\ pc = "done" =>
              /\ Len(ret) = n
              /\ \A i \in 1..n : IsCell(ret[i])

(* a concept of two words compressed to four cells *)
C18_Witness ==
    /\ Done("compress_to_n_cells")
    /\ text \in Elems(DOMAIN_CONCEPTS)
    /\ n = 4
    /\ Len(words) = 2
    /\ Len(ret) = 4

(* C19: encode_g2 splits on the single space and keeps empty tokens: for a
   text without the blank cell, the number of blank cells in
   encode_g2(text) is the number of spaces in text. *)
C19_SeparatorsCountSpaces ==
    (Done("encode_g2") /\ Count(text, BlankCell) = 0)
        => Count(ret, BlankCell) = Count(text, Space)

(* a text with a leading space and two spaces in a row *)
C19_Witness ==
    /\ Done("encode_g2")
    /\ Count(text, BlankCell) = 0
    /\ Len(text) >= 3
    /\ text[1] = Space
    /\ \E i \in 2..(Len(text) - 1) : text[i] = Space /\ text[i + 1] = Space
    /\ \E i \in 1..Len(text) : text[i] # Space

(* decode_g1(encode_g1(s)) has the length of s and a space wherever the
   character of s, lower-cased or not as `lowered` says, is no key of map *)
LossyAt(map, s, out, lowered) ==
    /\ Len(out) = Len(s)
    /\ \A i \in 1..Len(s) :
          ~DictHas(map, IF lowered THEN LowerChar(s[i]) ELSE <<s[i]>>)
              => out[i] = Space

(* C20: for every string s, decode_g1(encode_g1(s)) has the length of s and
   a space at every position where s holds a character that is not a key of
   the Grade-1 table. *)
C20_SpaceWhereNotAKey ==
    /\ (Done("decode_g1") /\ chained) => LossyAt(G1_MAP, source, ret, FALSE)
    /\ (Done("val_decode_g1") /\ chained) => LossyAt(val_G1_MAP, source, ret, FALSE)

(* C20, amended: ... a space at every position where s holds a character
   whose lower-cased form is not a key of the Grade-1 table. *)
C20_SpaceWhereLoweredNotAKey ==
    /\ (Done("decode_g1") /\ chained) => LossyAt(G1_MAP, source, ret, TRUE)
    /\ (Done("val_decode_g1") /\ chained) => LossyAt(val_G1_MAP, source, ret, TRUE)

(* a round trip of a text with an upper-case letter, which comes back
   lower-cased, and a character no table has, which comes back a space *)
C20_Witness ==
    /\ Done("decode_g1")
    /\ chained
    /\ \E i \in 1..Len(source) : source[i] \in 65..90 /\ ret[i] = source[i] + 32
    /\ \E i \in 1..Len(source) :
          ~DictHas(G1_MAP, LowerChar(source[i])) /\ ret[i] = Space

(* rev holds, for every value of map, the key of map inserted last with
   that value, and holds nothing else *)
LastInsertedWins(map, rev) ==
    /\ KeysOf(rev) = ValuesOf(map)
    /\ \A i \in 1..Len(map) :
          LET same == {j \in 1..Len(map) : map[j][2] = map[i][2]}
          IN  DictGet(rev, map[i][2], <<>>) =
                  map[CHOOSE j \in same : \A k \in same : k <= j][1]

(* C21: a reverse table inverts its forward table, the key inserted later
   winning a shared cell: in generate_hybrid.py the cell of ',' and '1'
   decodes to '1', a cell with one key maps back to that key, and
   G2_REVERSE[G2_ALL[w]] = w for every whole-word key w. Stated of the
   tables as a call finds them and as a decode has just read them. *)
C21_ReverseLastInsertedWins ==
    /\ (pc = "idle" \/ Done("decode_g1")) =>
          /\ LastInsertedWins(tables.g1, tables.g1_reverse)
          /\ DictGet(tables.g1, <<44>>, <<>>) = DictGet(tables.g1, <<49>>, <<>>)
          /\ DictGet(tables.g1_reverse, DictGet(tables.g1, <<44>>, <<>>), <<>>) = <<49>>
          /\ \A w \in KeysOf(tables.g2_all) :
                DictGet(tables.g2_reverse, DictGet(tables.g2_all, w, <<>>), <<>>) = w
    /\ (pc = "idle" \/ Done("val_decode_g1")) =>
          LastInsertedWins(val_G1_MAP, val_G1_REVERSE)
    /\ (Done("decode_g1") /\ text = <<10242>>) => ret = <<49>>

(* the cell shared by ',' and '1' decoded *)
C21_Witness ==
    /\ Done("decode_g1")
    /\ ~chained
    /\ text = <<10242>>
    /\ ret = <<49>>

(* no key is in two of the four Grade-2 tables of T *)
KeysDisjoint(T) ==
    LET ks == <<KeysOf(T.strong), KeysOf(T.wordsigns), KeysOf(T.lower),
                KeysOf(T.groupsigns)>>
    IN  \A i \in 1..4 : \A j \in (i + 1)..4 : ks[i] \cap ks[j] = {}

(* a word resolved with the whole-word tables consulted in the opposite
   order: Lower Wordsigns, Wordsigns, Strong Contractions *)
ResolveLowerFirst(T, word) ==
    IF DictHas(T.lower, word) THEN DictGet(T.lower, word, <<>>)
    ELSE IF DictHas(T.wordsigns, word) THEN DictGet(T.wordsigns, word, <<>>)
    ELSE IF DictHas(T.strong, word) THEN DictGet(T.strong, word, <<>>)
    ELSE EncodeWord(T, word)

EncodedLowerFirst(T, t) ==
    LET ws == WordsOf(t)
    IN  Join([i \in 1..Len(ws) |-> ResolveLowerFirst(T, ws[i])], <<BlankCell>>)

(* C22: no key occurs in more than one of the four Grade-2 tables, in
   generate_hybrid.py and in generate_data.py, so a word resolves to the
   same cells whatever the order in which the whole-word tables are
   consulted. *)
C22_G2KeysDisjoint ==
    /\ pc = "idle" => KeysDisjoint(tables) /\ KeysDisjoint(DataTables)
    /\ Done("encode_g2") => ret = EncodedLowerFirst(tables, text)
    /\ Done("to_braille_g2") => ret = EncodedLowerFirst(DataTables, text)

(* a word found in the Lower Wordsign table, the table consulted last *)
C22_Witness ==
    /\ Done("encode_g2")
    /\ DictHas(G2_LOWER, Lower(text))
    /\ ret = DictGet(G2_LOWER, Lower(text), <<>>)

(* order lists the items of table longest key first, keys of equal length
   in the order of table *)
StableByKeyLenDesc(table, order) ==
    LET pos(it) == CHOOSE k \in 1..Len(table) : table[k] = it
    IN  /\ Len(order) = Len(table)
        /\ Elems(order) = Elems(table)
        /\ \A i \in 1..Len(order) : \A j \in (i + 1)..Len(order) :
              \/ Len(order[i][1]) > Len(order[j][1])
              \/ /\ Len(order[i][1]) = Len(order[j][1])
                 /\ pos(order[i]) < pos(order[j])

(* C23: groupsign tie-break. Among groupsign keys of equal length
   substitution is attempted in the insertion order of the literal table,
   so of two overlapping clusters of equal length the one listed earlier
   wins: in 'asthma' the cluster 'th' is substituted and 'st' is not, in
   'nowhere' the cluster 'wh' is substituted and 'ow' is not. *)
C23_GroupsignTieBreak ==
    /\ pc = "idle" =>
          StableByKeyLenDesc(tables.groupsigns, GroupsignOrder(tables.groupsigns))
    /\ (Done("encode_g2") /\ text = <<97, 115, 116, 104, 109, 97>>)
          => ret = <<10241, 10254, 10297, 10253, 10241>>
    /\ (Done("encode_g2") /\ text = <<110, 111, 119, 104, 101, 114, 101>>)
          => ret = <<10269, 10261, 10289, 10299, 10257>>

(* 'asthma' encoded with the cell of 'th' and without the cell of 'st' *)
C23_Witness ==
    /\ Done("encode_g2")
    /\ text = <<97, 115, 116, 104, 109, 97>>
    /\ Count(ret, DictGet(G2_GROUPSIGNS, <<116, 104>>, <<>>)[1]) = 1
    /\ Count(ret, DictGet(G2_GROUPSIGNS, <<115, 116>>, <<>>)[1]) = 0

(* C24: the Word-Separator Cell that joins words in encode_g2 output is
   absent from encode_g1 output. *)
C24_SeparatorAbsentFromG1 ==
    Done("encode_g1") => Count(ret, BlankCell) = 0

(* C24, amended: the Word-Separator Cell that joins words in encode_g2
   output is present in encode_g1 output wherever the text has a space:
   Grade-1 encodes a space character through the Grade-1 table's own entry
   for ' ', and that entry is the separator cell itself. *)
C24_SeparatorIsG1Space ==
    /\ Done("encode_g1") =>
          /\ DictGet(tables.g1, <<Space>>, <<>>) = <<BlankCell>>
          /\ Len(ret) = Len(text)
          /\ \A i \in 1..Len(text) :
                text[i] = Space => <<ret[i]>> = DictGet(tables.g1, <<Space>>, <<>>)
    /\ (Done("encode_g2") /\ Count(text, BlankCell) = 0 /\ Count(text, Space) > 0)
        => Count(ret, DictGet(tables.g1, <<Space>>, <<>>)[1]) = Count(text, Space)

(* a Grade-1 encoding of letters around a space *)
C24_Witness ==
    /\ Done("encode_g1")
    /\ Len(text) = 3
    /\ IsAlpha(text[1]) /\ text[2] = Space /\ IsAlpha(text[3])
    /\ ret[1] # BlankCell /\ ret[2] = BlankCell /\ ret[3] # BlankCell

(* every character of every value of table is a token of the vocabulary *)
ValuesAreCells(table) ==
    \A i \in 1..Len(table) : \A k \in 1..Len(table[i][2]) :
        table[i][2][k] \in braille_cells

(* C25: every value of every mapping table, and so every character of an
   encode_g1 output and of a compress_to_n_cells cell sequence, is one of
   the 256 code points U+2800..U+28FF, the cells of the vocabulary
   build_braille_tokenizer builds. *)
C25_CellsInVocabulary ==
    /\ pc = "idle" =>
          /\ braille_cells = 10240..10495
          /\ \A t \in {tables.g1, tables.strong, tables.wordsigns,
                        tables.groupsigns, tables.lower} : ValuesAreCells(t)
          /\ \A t \in {gd_G1_MAP, gd_G2_STRONG, gd_G2_WORDSIGNS,
                        gd_G2_GROUPSIGNS, gd_G2_LOWER, val_G1_MAP} : ValuesAreCells(t)
    /\ (Done("encode_g1") \/ Done("to_braille_g1") \/ Done("val_encode_g1")
          \/ Done("compress_to_n_cells"))
        => \A i \in 1..Len(ret) : ret[i] \in braille_cells

(* a Grade-1 encoding of a text with a character that is neither a key of
   the table nor a cell *)
C25_Witness ==
    /\ Done("encode_g1")
    /\ \E i \in 1..Len(text) :
          text[i] \notin braille_cells /\ ~DictHas(G1_MAP, LowerChar(text[i]))
    /\ \A i \in 1..Len(ret) : ret[i] \in braille_cells

(* the number of Braille cells among the characters of s *)
CellCount(s) == Cardinality({i \in 1..Len(s) : s[i] \in braille_cells})

(* no whole-word value of T is longer than its key, and every groupsign
   replaces 2 or 3 characters by one cell *)
TablesContract(T) ==
    /\ \A t \in {T.strong, T.wordsigns, T.lower} :
          \A i \in 1..Len(t) : Len(t[i][2]) <= Len(t[i][1])
    /\ \A i \in 1..Len(T.groupsigns) :
          Len(T.groupsigns[i][1]) \in {2, 3} /\ Len(T.groupsigns[i][2]) = 1

(* C26: Grade-2 never expands: for every text, encode_g2(text) has at most
   as many characters as text. *)
C26_G2NeverExpands ==
    (Done("encode_g2") \/ Done("to_braille_g2")) => Len(ret) <= Len(text)

(* C26, amended: for every text, encode_g2(text) has at most as many
   characters as the lower-cased text, and at most as many cells as
   encode_g1(text); every whole-word table value is no longer than its key
   and each groupsign replaces 2 or 3 characters by one cell. *)
C26_G2NeverExpandsLowered ==
    /\ pc = "idle" => TablesContract(tables) /\ TablesContract(DataTables)
    /\ Done("encode_g2") =>
          /\ Len(ret) <= Len(Lower(text))
          /\ CellCount(ret) <= Len(encode_g1(text))
    /\ Done("to_braille_g2") =>
          /\ Len(ret) <= Len(Lower(text))
          /\ CellCount(ret) <= Len(to_braille_g1(text))

(* U+0130, whose lower-case form has two characters, encoded to two
   characters of which one is a cell *)
C26_Witness ==
    /\ Done("encode_g2")
    /\ Len(Lower(text)) > Len(text)
    /\ Len(ret) = Len(Lower(text))
    /\ CellCount(ret) = Len(text)

(* a whole word and the cluster that has the same cell:
   child/ch, shall/sh, this/th, which/wh, out/ou, still/st *)
SharedCellPairs ==
    { << <<99, 104, 105, 108, 100>>, <<99, 104>> >>,
      << <<115, 104, 97, 108, 108>>, <<115, 104>> >>,
      << <<116, 104, 105, 115>>, <<116, 104>> >>,
      << <<119, 104, 105, 99, 104>>, <<119, 104>> >>,
      << <<111, 117, 116>>, <<111, 117>> >>,
      << <<115, 116, 105, 108, 108>>, <<115, 116>> >> }

(* C27: encode_g2 is not injective on words: the whole word and the cluster
   standing alone encode to the same single cell for child/ch, shall/sh,
   this/th, which/wh, out/ou and still/st, and each alphabetic wordsign
   encodes to the cell of a letter standing alone (encode_g2('but') is
   encode_g2('b')). *)
C27_G2NotInjective ==
    Done("encode_g2") =>
        /\ \A p \in SharedCellPairs :
              text \in {p[1], p[2]}
                  => Len(ret) = 1 /\ ret = encode_g2(p[1]) /\ ret = encode_g2(p[2])
        /\ DictHas(G2_WORDSIGNS, text) =>
              \E c \in 97..122 :
                  ret = DictGet(G1_MAP, <<c>>, <<>>) /\ ret = encode_g2(<<c>>)
        /\ text \in {<<98, 117, 116>>, <<98>>} => ret = <<10243>>

(* the cluster 'ch' standing alone, encoded to the cell of 'child' *)
C27_Witness ==
    /\ Done("encode_g2")
    /\ text = <<99, 104>>
    /\ ret = DictGet(G2_STRONG, <<99, 104, 105, 108, 100>>, <<>>)

(* the word holds the cluster 'en' or 'in' *)
HasEnOrIn(w) ==
    Occurrences(w, <<101, 110>>) # {} \/ Occurrences(w, <<105, 110>>) # {}

(* a text over letters and spaces in which no word outside the whole-word
   tables holds 'en' or 'in' *)
WithoutEnIn(t) ==
    /\ \A i \in 1..Len(t) : IsLetterOrSpace(t[i])
    /\ \A i \in 1..Len(WordsOf(t)) :
          LET w == WordsOf(t)[i]
          IN  \/ InWholeWordTable(HybridTables, w)
              \/ InWholeWordTable(DataTables, w)
              \/ ~HasEnOrIn(w)

(* C28: to_braille_g2 of generate_data.py and encode_g2 of
   generate_hybrid.py return the same output for every text over letters
   and spaces in which no word outside the whole-word tables holds the
   cluster 'en' or 'in'; they differ on 'then' and 'think', where only
   generate_hybrid.py has the groupsigns, and the whole word 'in' is the
   same cell in both. *)
C28_G2EncodersAgree ==
    /\ (Done("encode_g2") /\ WithoutEnIn(text)) => ret = to_braille_g2(text)
    /\ (Done("to_braille_g2") /\ WithoutEnIn(text)) => ret = encode_g2(text)
    /\ (Done("encode_g2")
          /\ text \in {<<116, 104, 101, 110>>, <<116, 104, 105, 110, 107>>})
        => ret # to_braille_g2(text)
    /\ ((Done("encode_g2") \/ Done("to_braille_g2")) /\ text = <<105, 110>>)
        => ret = <<10260>>

(* generate_data.py's encoder on a single word outside the whole-word
   tables, without 'en' or 'in', that a groupsign shortened *)
C28_Witness ==
    /\ Done("to_braille_g2")
    /\ WithoutEnIn(text)
    /\ Count(text, Space) = 0
    /\ ~InWholeWordTable(DataTables, Lower(text))
    /\ Len(ret) < Len(text)
    /\ ret = encode_g2(text)

=============================================================================
